---- MODULE Spec2Model ----
(***************************************************************************)
(* Model of debug_gguf.py: read_string and read_gguf_metadata, the reader  *)
(* of the header and key/value metadata section of a GGUF file.            *)
(*                                                                         *)
(* The file is a sequence of bytes (0..255).  Every f.read(n) returns the  *)
(* at most n bytes that remain and advances the position by what it        *)
(* returned; struct.unpack raises struct.error when it is handed fewer     *)
(* bytes than its format needs.  Text is a sequence of code points.        *)
(* The standard output is the sequence `report' of printed lines.          *)
(***************************************************************************)
EXTENDS Integers, Sequences, FiniteSets, TLC

VARIABLES
    input,          \* what the file was built from
    data,           \* the bytes of the file
    pos,            \* f.tell(): bytes consumed so far
    fopen,          \* the file object of the with statement is open
    pc,             \* the statement the interpreter is at
    how,            \* how the with block is being left
    outcome,        \* how read_gguf_metadata ended
    magic, version, tensor_count, kv_count,
    i,              \* loop variable of line 29
    key,            \* local of read_gguf_metadata, line 31
    length,         \* local of read_string, line 6
    type_value,     \* line 36
    value_len,      \* line 47
    array_type,     \* line 58
    array_len,      \* line 59
    j,              \* loop variable of line 67
    str_len,        \* line 68
    exc,            \* the pending exception: the size struct.unpack required
    report,         \* the lines printed so far
    trail,          \* f.tell() after every step of this run
    first           \* what an earlier run over the twin file did, if any

vars == <<input, data, pos, fopen, pc, how, outcome, magic, version,
          tensor_count, kv_count, i, key, length, type_value, value_len,
          array_type, array_len, j, str_len, exc, report, trail, first>>

locals == <<magic, version, tensor_count, kv_count, i, key, length,
            type_value, value_len, array_type, array_len, j, str_len>>

-----------------------------------------------------------------------------
(* Numbers and bytes *)

Min(a, b) == IF a < b THEN a ELSE b

\* An unbound Python local.
Unbound == -1

\* The model's integers are 32 bits wide; Python's are unbounded.  Every
\* unpacked value of 2^31 - 1 or more is represented by Huge.  The code
\* compares unpacked values only with 50, 10000, 100000 and the type codes,
\* and reads only lengths it found to be at most 100000, so the branches
\* taken and the bytes consumed are those of the exact value.
Huge == 2147483647

\* struct.unpack('<I', b)[0] for a 4-byte b.
unpack_I(b) ==
    IF b[4] >= 128 THEN Huge
    ELSE b[1] + 256 * b[2] + 65536 * b[3] + 16777216 * b[4]

\* struct.unpack('<Q', b)[0] for an 8-byte b.
unpack_Q(b) ==
    IF b[5] # 0 \/ b[6] # 0 \/ b[7] # 0 \/ b[8] # 0 THEN Huge
    ELSE unpack_I(SubSeq(b, 1, 4))

\* f.read(n) at position p: the bytes returned.
f_read(p, n) == SubSeq(data, p + 1, Min(p + n, Len(data)))

-----------------------------------------------------------------------------
(* bytes.decode('utf-8') and bytes.decode('utf-8', errors='replace').      *)
(* The decoder covers one- and two-byte sequences; the files of Init hold  *)
(* no byte in 0xE0..0xF7, the lead bytes of longer sequences.  What a byte *)
(* contributes depends only on its neighbours, so the text is assembled by *)
(* halving the range (logarithmic depth).  The bytes and the middle of a   *)
(* range are bound as values, so that they are computed once.              *)

\* The element of a set of one element.
TheOne(S) == CHOOSE x \in S : TRUE

IsLead2(x) == x >= 194 /\ x <= 223
IsCont(x) == x >= 128 /\ x <= 191
Replacement == 65533

\* Position k of b is a byte that no valid sequence accounts for.
Utf8Bad(b, k) ==
    LET x == b[k] IN
    IF x < 128 THEN FALSE
    ELSE IF IsLead2(x) THEN ~(k < Len(b) /\ IsCont(b[k + 1]))
    ELSE IF IsCont(x) THEN ~(k > 1 /\ IsLead2(b[k - 1]))
    ELSE TRUE

\* The code points position k of b contributes under errors='replace'.
Utf8Emit(b, k) ==
    LET x == b[k] IN
    IF Utf8Bad(b, k) THEN <<Replacement>>
    ELSE IF x < 128 THEN <<x>>
    ELSE IF IsLead2(x) THEN <<(x - 192) * 64 + (b[k + 1] - 128)>>
    ELSE << >>

RECURSIVE Utf8Range(_, _, _)
Utf8Range(b, lo, hi) ==
    IF lo > hi THEN << >>
    ELSE IF lo = hi THEN Utf8Emit(b, lo)
    ELSE TheOne({ Utf8Range(b, lo, mid) \o Utf8Range(b, mid + 1, hi) :
                    mid \in {(lo + hi) \div 2} })

\* b.decode('utf-8') raises UnicodeDecodeError.
UnicodeDecodeError(b) == \E c \in {b} : \E k \in 1..Len(c) : Utf8Bad(c, k)

\* b.decode('utf-8', errors='replace'); equal to b.decode('utf-8') when
\* that does not raise.
decode(b) == TheOne({ Utf8Range(c, 1, Len(c)) : c \in {b} })

HexDigit(n) == IF n < 10 THEN 48 + n ELSE 87 + n

\* b.hex(): two lower-case hexadecimal digits per byte.
hex(b) == [k \in 1..(2 * Len(b)) |->
              LET x == b[(k + 1) \div 2]
              IN HexDigit(IF k % 2 = 1 THEN x \div 16 ELSE x % 16)]

-----------------------------------------------------------------------------
(* Program constants *)

\* "<CORRUPTED>", line 9 and line 32
CORRUPTED == <<60, 67, 79, 82, 82, 85, 80, 84, 69, 68, 62>>

\* "tokenizer.ggml.pre", lines 40, 52, 60
WatchKey == <<116, 111, 107, 101, 110, 105, 122, 101, 114, 46,
              103, 103, 109, 108, 46, 112, 114, 101>>

MaxStringLen == 10000
MaxValueLen == 10000
MaxArrayLen == 100000
MaxArrayStrLen == 10000
MaxEntries == 50
\* the bytes of the header: lines 19-22 read 4 + 4 + 8 + 8
HeaderSize == 24
TYPE_STRING == 8
TYPE_ARRAY == 9

\* type_sizes of lines 75 and 80
type_sizes ==
    0 :> 1 @@ 1 :> 1 @@ 2 :> 1 @@ 3 :> 2 @@ 4 :> 2 @@ 5 :> 4 @@
    6 :> 4 @@ 7 :> 4 @@ 8 :> 8 @@ 9 :> 8 @@ 10 :> 8

-----------------------------------------------------------------------------
(* The printed lines *)

Line(kind, idx, text, a, b, found) ==
    [kind |-> kind, idx |-> idx, text |-> text, a |-> a, b |-> b,
     found |-> found]

\* line 8
WarnString(len) == Line("warn_string", 0, << >>, len, 0, FALSE)
\* line 24, 25, 26
HeaderLine1 == Line("magic_version", 0, << >>, magic, version, FALSE)
HeaderLine2 == Line("counts", 0, << >>, tensor_count, kv_count, FALSE)
KeysTitle == Line("metadata_keys", 0, << >>, 0, 0, FALSE)
\* line 33
CorruptedKeyLine(n) == Line("corrupted_key", n, << >>, 0, 0, FALSE)
\* lines 38-43: the entry line, with the FOUND marker on it for the watched key
EntryLine_nomarker(n, k, t) == Line("entry", n, k, t, 0, FALSE)
EntryLine(n, k, t) == Line("entry", n, k, t, 0, k = WatchKey)
\* line 49
WarnValueLen(len) == Line("warn_value_len", 0, << >>, len, 0, FALSE)
\* line 54, 56
ValueLine(text) == Line("value", 0, text, 0, 0, FALSE)
ValueHexLine(text) == Line("value_hex", 0, text, 0, 0, FALSE)
\* line 61
ArrayInfoLine(t, n) == Line("array_info", 0, << >>, t, n, FALSE)
\* line 64
WarnArrayLen(n) == Line("warn_array_len", 0, << >>, n, 0, FALSE)
\* line 70
WarnArrayString == Line("warn_array_string", 0, << >>, 0, 0, FALSE)
\* line 84
ErrorLine(n, size) == Line("error", n, << >>, size, 0, FALSE)

-----------------------------------------------------------------------------
(* The files.  A file is built from a description: the kv_count of its     *)
(* header, the entries that follow the header, and the number of bytes     *)
(* kept (a file cut short).  The layout is the one the reads of lines      *)
(* 6-10, 19-22, 36, 47-51, 58-59, 68-72, 77 and 82 take apart.             *)

\* struct.pack('<I', n) and struct.pack('<Q', n), for 0 <= n < 2^31
pack_I(n) == <<n % 256, (n \div 256) % 256, (n \div 65536) % 256,
               n \div 16777216>>
pack_Q(n) == pack_I(n) \o <<0, 0, 0, 0>>

\* The concatenation of the sequences s[lo..hi], by halving.
RECURSIVE Cat(_, _, _)
Cat(s, lo, hi) ==
    IF lo > hi THEN << >>
    ELSE IF lo = hi THEN s[lo]
    ELSE LET mid == (lo + hi) \div 2
         IN Cat(s, lo, mid) \o Cat(s, mid + 1, hi)

\* text.encode('utf-8') for code points below 0x800
Utf8Encode(text) ==
    Cat([k \in 1..Len(text) |->
            IF text[k] < 128 THEN <<text[k]>>
            ELSE <<192 + (text[k] \div 64), 128 + (text[k] % 64)>>],
        1, Len(text))

Zeros(n) == [k \in 1..n |-> 0]

\* A 64-bit length and that many bytes: a key, a STRING value, an element.
Prefixed(b) == pack_Q(Len(b)) \o b

\* An entry: the text of its key, its type code, what kind of entry it is
\* and its bytes.
Entry(kind, text, type, body) ==
    [kind |-> kind, text |-> text, type |-> type,
     bytes |-> Prefixed(Utf8Encode(text)) \o pack_I(type) \o body]

StringEntry(text, value) ==
    Entry("string", text, TYPE_STRING, Prefixed(value))
ScalarEntry(text, type) ==
    Entry("scalar", text, type, Zeros(type_sizes[type]))
StringArrayEntry(text, elems) ==
    Entry("string_array", text, TYPE_ARRAY,
          pack_I(TYPE_STRING) \o pack_Q(Len(elems))
          \o Cat([k \in 1..Len(elems) |-> Prefixed(elems[k])], 1, Len(elems)))
\* n elements of type et, each `width' bytes wide
ArrayEntry(text, et, n, width) ==
    Entry("array", text, TYPE_ARRAY,
          pack_I(et) \o pack_Q(n) \o Zeros(n * width))
\* a type code that is in no table; no value bytes
UnknownEntry(text, type) ==
    Entry("unknown", text, type, << >>)
\* a key whose length field declares len, followed by the bytes `rest'
OversizeKeyEntry(lenfield, rest) ==
    [kind |-> "oversize_key", text |-> << >>, type |-> Unbound,
     bytes |-> lenfield \o rest]
\* a STRING value whose length field declares len
OversizeValueEntry(text, len) ==
    Entry("oversize_value", text, TYPE_STRING, pack_Q(len))
\* an ARRAY whose length field declares n
OversizeArrayEntry(text, et, n) ==
    Entry("oversize_array", text, TYPE_ARRAY, pack_I(et) \o pack_Q(n))
\* a STRING array of Len(before) + 2 elements: those of `before', one whose
\* length field declares len, and a last one
OversizeElemEntry(text, before, len, last) ==
    Entry("oversize_elem", text, TYPE_ARRAY,
          pack_I(TYPE_STRING) \o pack_Q(Len(before) + 2)
          \o Cat([k \in 1..Len(before) |-> Prefixed(before[k])], 1, Len(before))
          \o pack_Q(len) \o Prefixed(last))

T_name == <<110, 97, 109, 101>>
T_hello == <<104, 101, 108, 108, 111>>
T_tags == <<116, 97, 103, 115>>
T_llama3 == <<108, 108, 97, 109, 97, 51>>
T_e_acute == <<99, 97, 102, 233>>
T_a == <<97>>
T_b == <<98>>

\* The entries the files are built from.
Catalogue ==
    << StringEntry(T_name, T_hello),
       ScalarEntry(T_a, 4),
       StringArrayEntry(T_tags, <<T_a, T_b>>),
       StringEntry(WatchKey, T_llama3),
       StringEntry(WatchKey, <<255, 65>>),
       ArrayEntry(WatchKey, 5, 2, 4),
       StringEntry(CORRUPTED, T_a),
       ScalarEntry(T_e_acute, 10),
       UnknownEntry(T_b, 11),
       OversizeKeyEntry(pack_Q(MaxStringLen + 1), T_a),
       OversizeValueEntry(T_name, MaxValueLen + 1),
       OversizeArrayEntry(T_tags, 5, MaxArrayLen + 1),
       OversizeElemEntry(T_tags, <<T_a>>, MaxArrayStrLen + 1, T_b) >>

\* Entries met only in files of one entry.
Singles ==
    << OversizeKeyEntry(<<255, 255, 255, 255, 255, 255, 255, 255>>, << >>),
       OversizeValueEntry(WatchKey, MaxValueLen + 1),
       OversizeArrayEntry(WatchKey, TYPE_STRING, MaxArrayLen + 1),
       OversizeElemEntry(WatchKey, << >>, MaxArrayStrLen + 1, T_b),
       StringEntry(<<>>, << >>),
       StringArrayEntry(WatchKey, << >>),
       ArrayEntry(T_name, 9, 1, 8),
       ArrayEntry(T_name, 12, 2, 0),
       ArrayEntry(T_name, 0, 3, 1),
       ScalarEntry(WatchKey, 7),
       UnknownEntry(WatchKey, 200) >>

\* The entries a file of the long family repeats.
Cycle == << StringEntry(T_name, T_hello),
            ScalarEntry(T_a, 4),
            StringArrayEntry(T_tags, <<T_a, T_b>>) >>

\* Entries per file of the combined family.
MaxCombo == 2
\* Entries of the longest file.
LongCount == 100

Description(openable, kv, ents, cut) ==
    [openable |-> openable, kv |-> kv, ents |-> ents, cut |-> cut]

Whole == Unbound

\* magic "GGUF", version 3, tensor_count 0, kv_count
Header(kv) == <<71, 71, 85, 70>> \o pack_I(3) \o pack_Q(0) \o pack_Q(kv)

FileOf(d) ==
    LET all == Header(d.kv)
               \o Cat([k \in 1..Len(d.ents) |-> d.ents[k].bytes], 1, Len(d.ents))
    IN  IF d.cut = Whole THEN all ELSE SubSeq(all, 1, Min(d.cut, Len(all)))

\* Every file of at most MaxCombo entries of the catalogue, with a kv_count
\* of zero, of the number of entries, or of one more.
Combined ==
    UNION { { Description(TRUE, kv, [k \in 1..Len(f) |-> Catalogue[f[k]]],
                          Whole) : kv \in {0, Len(f), Len(f) + 1} } :
            f \in UNION { [1..n -> 1..Len(Catalogue)] : n \in 0..MaxCombo } }

\* Each of them alone, and each followed by the first entry of the catalogue.
Single ==
    { Description(TRUE, kv, <<Singles[k]>> \o tail, Whole) :
        k \in 1..Len(Singles), kv \in 1..2,
        tail \in {<< >>, <<Catalogue[1]>>} }

\* A file of n entries, the k-th being Cycle[..] except that entry `at' is e.
LongEntries(n, at, e) ==
    [k \in 1..n |-> IF k = at THEN e ELSE Cycle[(k % Len(Cycle)) + 1]]

Long ==
    { Description(TRUE, kv, LongEntries(n, 0, Cycle[1]), Whole) :
        kv \in {MaxEntries - 1, MaxEntries, MaxEntries + 1, LongCount},
        n \in {MaxEntries, LongCount} }
    \cup
    { Description(TRUE, LongCount,
                  LongEntries(LongCount, 3, StringEntry(CORRUPTED, T_a)), Whole) }

TourEntries == << Catalogue[1], Catalogue[2], Catalogue[6], Catalogue[3],
                  Catalogue[4] >>

\* Every file that is the first bytes of the tour file.
CutShort ==
    { Description(TRUE, Len(TourEntries), TourEntries, cut) :
        cut \in 0..(Len(FileOf(Description(TRUE, Len(TourEntries),
                                            TourEntries, Whole))) - 1) }

\* Entries whose declared lengths are exactly the ceilings of lines 7, 48,
\* 63 and 69.
AtCeiling ==
    << ScalarEntry([k \in 1..MaxStringLen |-> 97], 4),
       StringEntry(WatchKey, [k \in 1..MaxValueLen |-> 97]),
       StringArrayEntry(T_tags, <<T_a, [k \in 1..MaxArrayStrLen |-> 97]>>),
       ArrayEntry(T_tags, 0, MaxArrayLen, 1) >>

\* Each of them followed by the first entry of the catalogue.
Boundary ==
    { Description(TRUE, 2, <<AtCeiling[k], Catalogue[1]>>, Whole) :
        k \in 1..Len(AtCeiling) }

Inputs ==
    Combined \cup Single \cup Long \cup CutShort \cup Boundary
    \cup { Description(FALSE, 0, << >>, Whole) }

Init ==
    /\ input \in Inputs
    /\ data = FileOf(input)
    /\ pos = 0
    /\ fopen = FALSE
    /\ pc = "open"
    /\ how = "none"
    /\ outcome = "none"
    /\ magic = Unbound
    /\ version = Unbound
    /\ tensor_count = Unbound
    /\ kv_count = Unbound
    /\ i = Unbound
    /\ key = << >>
    /\ length = Unbound
    /\ type_value = Unbound
    /\ value_len = Unbound
    /\ array_type = Unbound
    /\ array_len = Unbound
    /\ j = Unbound
    /\ str_len = Unbound
    /\ exc = 0
    /\ report = << >>
    /\ trail = << >>
    /\ first = << >>

-----------------------------------------------------------------------------
(* read_string(f), lines 5-14, called with the file at position p.  The    *)
(* result names what the call did: whether struct.unpack raised, the       *)
(* position it left the file at, the local `length', the value returned    *)
(* and the lines it printed.                                               *)

read_string_greedy(p) ==
    LET lenb == f_read(p, 8)
        len == unpack_Q(lenb)
        payload == f_read(p + 8, Min(len, Len(data)))
    IN  IF Len(lenb) # 8
        THEN [raised |-> TRUE, pos |-> p + Len(lenb), length |-> length,
              ret |-> << >>, out |-> << >>]
        ELSE IF len > MaxStringLen
        THEN [raised |-> FALSE, pos |-> p + 8 + Len(payload), length |-> len,
              ret |-> CORRUPTED, out |-> <<WarnString(len)>>]
        ELSE [raised |-> FALSE, pos |-> p + 8 + Len(payload), length |-> len,
              ret |-> decode(payload), out |-> << >>]
read_string(p) ==
    LET lenb == f_read(p, 8)
        len == unpack_Q(lenb)
        payload == f_read(p + 8, len)
    IN  IF Len(lenb) # 8
        THEN [raised |-> TRUE, pos |-> p + Len(lenb), length |-> length,
              ret |-> << >>, out |-> << >>]
        ELSE IF len > MaxStringLen
        THEN [raised |-> FALSE, pos |-> p + 8, length |-> len,
              ret |-> CORRUPTED, out |-> <<WarnString(len)>>]
        ELSE [raised |-> FALSE, pos |-> p + 8 + Len(payload), length |-> len,
              ret |-> decode(payload), out |-> << >>]

-----------------------------------------------------------------------------
(* read_gguf_metadata(filename), lines 16-85 *)

\* Leaving the with block by break, return, an exception or its end.
Leave(way) == /\ pc' = "with_exit"
              /\ how' = way

\* An exception raised inside the try of line 30.
Raise(size) == /\ pc' = "except"
               /\ exc' = size

\* line 34: break
OnCorruptedKey_continue == pc' = "for" /\ UNCHANGED how
OnCorruptedKey == Leave("break")

\* line 50: break
OnOversizeValue_continue == pc' = "for" /\ UNCHANGED how
OnOversizeValue == Leave("break")

\* line 65: break
OnOversizeArray_continue == pc' = "array_skip" /\ UNCHANGED how
OnOversizeArray == Leave("break")

\* line 71: return
OnOversizeElem_continue == pc' = "for_elem" /\ UNCHANGED how
OnOversizeElem == Leave("return")

\* line 17: open(filename, 'rb')
Open ==
    /\ pc = "open"
    /\ IF input.openable
       THEN /\ fopen' = TRUE
            /\ pc' = "magic"
            /\ UNCHANGED outcome
       ELSE /\ pc' = "finished"
            /\ outcome' = "IOError"
            /\ UNCHANGED fopen
    /\ UNCHANGED <<input, data, pos, how, locals, exc, report>>

\* line 19
ReadMagic ==
    /\ pc = "magic"
    /\ LET b == f_read(pos, 4) IN
         /\ pos' = pos + Len(b)
         /\ IF Len(b) = 4
            THEN magic' = unpack_I(b) /\ pc' = "version" /\ UNCHANGED how
            ELSE Leave("raise") /\ UNCHANGED magic
    /\ UNCHANGED <<input, data, fopen, outcome, version, tensor_count,
                   kv_count, i, key, length, type_value, value_len,
                   array_type, array_len, j, str_len, exc, report>>

\* line 20
ReadVersion ==
    /\ pc = "version"
    /\ LET b == f_read(pos, 4) IN
         /\ pos' = pos + Len(b)
         /\ IF Len(b) = 4
            THEN version' = unpack_I(b) /\ pc' = "tensor_count" /\ UNCHANGED how
            ELSE Leave("raise") /\ UNCHANGED version
    /\ UNCHANGED <<input, data, fopen, outcome, magic, tensor_count,
                   kv_count, i, key, length, type_value, value_len,
                   array_type, array_len, j, str_len, exc, report>>

\* line 21
ReadTensorCount ==
    /\ pc = "tensor_count"
    /\ LET b == f_read(pos, 8) IN
         /\ pos' = pos + Len(b)
         /\ IF Len(b) = 8
            THEN tensor_count' = unpack_Q(b) /\ pc' = "kv_count" /\ UNCHANGED how
            ELSE Leave("raise") /\ UNCHANGED tensor_count
    /\ UNCHANGED <<input, data, fopen, outcome, magic, version,
                   kv_count, i, key, length, type_value, value_len,
                   array_type, array_len, j, str_len, exc, report>>

\* line 22
ReadKvCount_padded ==
    /\ pc = "kv_count"
    /\ LET b == f_read(pos, 8) IN
         /\ pos' = pos + Len(b)
         /\ kv_count' = unpack_Q(b \o Zeros(8 - Len(b)))
         /\ pc' = "print_header"
    /\ UNCHANGED <<input, data, fopen, how, outcome, magic, version,
                   tensor_count, i, key, length, type_value, value_len,
                   array_type, array_len, j, str_len, exc, report>>
ReadKvCount ==
    /\ pc = "kv_count"
    /\ LET b == f_read(pos, 8) IN
         /\ pos' = pos + Len(b)
         /\ IF Len(b) = 8
            THEN kv_count' = unpack_Q(b) /\ pc' = "print_header" /\ UNCHANGED how
            ELSE Leave("raise") /\ UNCHANGED kv_count
    /\ UNCHANGED <<input, data, fopen, outcome, magic, version,
                   tensor_count, i, key, length, type_value, value_len,
                   array_type, array_len, j, str_len, exc, report>>

\* lines 24-26
PrintHeader ==
    /\ pc = "print_header"
    /\ report' = report \o <<HeaderLine1, HeaderLine2, KeysTitle>>
    /\ pc' = "for"
    /\ UNCHANGED <<input, data, pos, fopen, how, outcome, locals, exc>>

\* line 29: for i in range(min(kv_count, 50))
For ==
    /\ pc = "for"
    /\ IF i + 1 < Min(kv_count, MaxEntries)
       THEN i' = i + 1 /\ pc' = "read_key" /\ UNCHANGED how
       ELSE Leave("end") /\ UNCHANGED i
    /\ UNCHANGED <<input, data, pos, fopen, outcome, magic, version,
                   tensor_count, kv_count, key, length, type_value,
                   value_len, array_type, array_len, j, str_len, exc, report>>

\* line 31: key = read_string(f)
ReadKey ==
    /\ pc = "read_key"
    /\ \E r \in {read_string(pos)} :
         /\ pos' = r.pos
         /\ length' = r.length
         /\ report' = report \o r.out
         /\ IF r.raised
            THEN Raise(8) /\ UNCHANGED key
            ELSE key' = r.ret /\ pc' = "check_key" /\ UNCHANGED exc
    /\ UNCHANGED <<input, data, fopen, how, outcome, magic, version,
                   tensor_count, kv_count, i, type_value, value_len,
                   array_type, array_len, j, str_len>>

\* lines 32-34
CheckKey ==
    /\ pc = "check_key"
    /\ IF key = CORRUPTED
       THEN /\ report' = Append(report, CorruptedKeyLine(i + 1))
            /\ OnCorruptedKey
       ELSE /\ pc' = "read_type"
            /\ UNCHANGED <<report, how>>
    /\ UNCHANGED <<input, data, pos, fopen, outcome, locals, exc>>

\* lines 36-43
ReadType ==
    /\ pc = "read_type"
    /\ LET b == f_read(pos, 4) IN
         /\ pos' = pos + Len(b)
         /\ IF Len(b) = 4
            THEN /\ type_value' = unpack_I(b)
                 /\ report' = Append(report, EntryLine(i + 1, key, unpack_I(b)))
                 /\ pc' = "value"
                 /\ UNCHANGED exc
            ELSE /\ Raise(4)
                 /\ UNCHANGED <<type_value, report>>
    /\ UNCHANGED <<input, data, fopen, how, outcome, magic, version,
                   tensor_count, kv_count, i, key, length, value_len,
                   array_type, array_len, j, str_len>>

\* lines 46-56: a STRING value
StringValue_watchonly ==
    /\ pc = "value"
    /\ type_value = TYPE_STRING
    /\ LET lenb == f_read(pos, 8)
           len == unpack_Q(lenb)
           value == f_read(pos + 8, len)
       IN  IF Len(lenb) # 8
           THEN /\ pos' = pos + Len(lenb)
                /\ Raise(8)
                /\ UNCHANGED <<value_len, report, how>>
           ELSE IF len > MaxValueLen
           THEN /\ pos' = pos + 8
                /\ value_len' = len
                /\ report' = Append(report, WarnValueLen(len))
                /\ OnOversizeValue
                /\ UNCHANGED exc
           ELSE /\ pos' = IF key = WatchKey THEN pos + 8 + Len(value)
                                            ELSE pos + 8
                /\ value_len' = len
                /\ report' = IF key # WatchKey THEN report
                             ELSE IF UnicodeDecodeError(value)
                             THEN Append(report, ValueHexLine(hex(value)))
                             ELSE Append(report, ValueLine(decode(value)))
                /\ pc' = "for"
                /\ UNCHANGED <<exc, how>>
    /\ UNCHANGED <<input, data, fopen, outcome, magic, version,
                   tensor_count, kv_count, i, key, length, type_value,
                   array_type, array_len, j, str_len>>
StringValue ==
    /\ pc = "value"
    /\ type_value = TYPE_STRING
    /\ LET lenb == f_read(pos, 8)
           len == unpack_Q(lenb)
           value == f_read(pos + 8, len)
       IN  IF Len(lenb) # 8
           THEN /\ pos' = pos + Len(lenb)
                /\ Raise(8)
                /\ UNCHANGED <<value_len, report, how>>
           ELSE IF len > MaxValueLen
           THEN /\ pos' = pos + 8
                /\ value_len' = len
                /\ report' = Append(report, WarnValueLen(len))
                /\ OnOversizeValue
                /\ UNCHANGED exc
           ELSE /\ pos' = pos + 8 + Len(value)
                /\ value_len' = len
                /\ report' = IF key # WatchKey THEN report
                             ELSE IF UnicodeDecodeError(value)
                             THEN Append(report, ValueHexLine(hex(value)))
                             ELSE Append(report, ValueLine(decode(value)))
                /\ pc' = "for"
                /\ UNCHANGED <<exc, how>>
    /\ UNCHANGED <<input, data, fopen, outcome, magic, version,
                   tensor_count, kv_count, i, key, length, type_value,
                   array_type, array_len, j, str_len>>

\* lines 57-66: the element type and the length of an ARRAY value
ArrayValue ==
    /\ pc = "value"
    /\ type_value = TYPE_ARRAY
    /\ LET tb == f_read(pos, 4)
           nb == f_read(pos + 4, 8)
           t == unpack_I(tb)
           n == unpack_Q(nb)
       IN  IF Len(tb) # 4
           THEN /\ pos' = pos + Len(tb)
                /\ Raise(4)
                /\ UNCHANGED <<array_type, array_len, j, report, how>>
           ELSE IF Len(nb) # 8
           THEN /\ pos' = pos + 4 + Len(nb)
                /\ array_type' = t
                /\ Raise(8)
                /\ UNCHANGED <<array_len, j, report, how>>
           ELSE /\ pos' = pos + 12
                /\ array_type' = t
                /\ array_len' = n
                /\ LET shown == IF key = WatchKey
                                THEN Append(report, ArrayInfoLine(t, n))
                                ELSE report
                   IN  IF n > MaxArrayLen
                       THEN /\ report' = Append(shown, WarnArrayLen(n))
                            /\ OnOversizeArray
                            /\ UNCHANGED j
                       ELSE /\ report' = shown
                            /\ IF t = TYPE_STRING
                               THEN pc' = "for_elem" /\ j' = Unbound
                               ELSE pc' = "array_skip" /\ UNCHANGED j
                            /\ UNCHANGED how
                /\ UNCHANGED exc
    /\ UNCHANGED <<input, data, fopen, outcome, magic, version,
                   tensor_count, kv_count, i, key, length, type_value,
                   value_len, str_len>>

\* line 67: for j in range(array_len)
ForElem ==
    /\ pc = "for_elem"
    /\ IF j + 1 < array_len
       THEN j' = j + 1 /\ pc' = "elem"
       ELSE pc' = "for" /\ UNCHANGED j
    /\ UNCHANGED <<input, data, pos, fopen, how, outcome, magic, version,
                   tensor_count, kv_count, i, key, length, type_value,
                   value_len, array_type, array_len, str_len, exc, report>>

\* lines 68-72: one element of a STRING array
ReadElem_strict ==
    /\ pc = "elem"
    /\ LET lenb == f_read(pos, 8)
           len == unpack_Q(lenb)
           body == f_read(pos + 8, len)
       IN  IF Len(lenb) # 8
           THEN /\ pos' = pos + Len(lenb)
                /\ Raise(8)
                /\ UNCHANGED <<str_len, report, how>>
           ELSE IF len >= MaxArrayStrLen
           THEN /\ pos' = pos + 8
                /\ str_len' = len
                /\ report' = Append(report, WarnArrayString)
                /\ OnOversizeElem
                /\ UNCHANGED exc
           ELSE /\ pos' = pos + 8 + Len(body)
                /\ str_len' = len
                /\ pc' = "for_elem"
                /\ UNCHANGED <<report, exc, how>>
    /\ UNCHANGED <<input, data, fopen, outcome, magic, version,
                   tensor_count, kv_count, i, key, length, type_value,
                   value_len, array_type, array_len, j>>
ReadElem ==
    /\ pc = "elem"
    /\ LET lenb == f_read(pos, 8)
           len == unpack_Q(lenb)
           body == f_read(pos + 8, len)
       IN  IF Len(lenb) # 8
           THEN /\ pos' = pos + Len(lenb)
                /\ Raise(8)
                /\ UNCHANGED <<str_len, report, how>>
           ELSE IF len > MaxArrayStrLen
           THEN /\ pos' = pos + 8
                /\ str_len' = len
                /\ report' = Append(report, WarnArrayString)
                /\ OnOversizeElem
                /\ UNCHANGED exc
           ELSE /\ pos' = pos + 8 + Len(body)
                /\ str_len' = len
                /\ pc' = "for_elem"
                /\ UNCHANGED <<report, exc, how>>
    /\ UNCHANGED <<input, data, fopen, outcome, magic, version,
                   tensor_count, kv_count, i, key, length, type_value,
                   value_len, array_type, array_len, j>>

\* lines 73-77: the elements of an array of any other type
ArraySkip_seek ==
    /\ pc = "array_skip"
    /\ pos' = IF array_type \in DOMAIN type_sizes
              THEN pos + array_len * type_sizes[array_type]
              ELSE pos
    /\ pc' = "for"
    /\ UNCHANGED <<input, data, fopen, how, outcome, locals, exc, report>>
ArraySkip ==
    /\ pc = "array_skip"
    /\ pos' = IF array_type \in DOMAIN type_sizes
              THEN pos + Len(f_read(pos, array_len * type_sizes[array_type]))
              ELSE pos
    /\ pc' = "for"
    /\ UNCHANGED <<input, data, fopen, how, outcome, locals, exc, report>>

\* lines 78-82: a value of any other type
ScalarValue_keyerror ==
    /\ pc = "value"
    /\ type_value # TYPE_STRING
    /\ type_value # TYPE_ARRAY
    /\ IF type_value \in DOMAIN type_sizes
       THEN /\ pos' = pos + Len(f_read(pos, type_sizes[type_value]))
            /\ pc' = "for"
            /\ UNCHANGED exc
       ELSE /\ Raise(0)
            /\ UNCHANGED pos
    /\ UNCHANGED <<input, data, fopen, how, outcome, locals, report>>
ScalarValue ==
    /\ pc = "value"
    /\ type_value # TYPE_STRING
    /\ type_value # TYPE_ARRAY
    /\ pos' = IF type_value \in DOMAIN type_sizes
              THEN pos + Len(f_read(pos, type_sizes[type_value]))
              ELSE pos
    /\ pc' = "for"
    /\ UNCHANGED <<input, data, fopen, how, outcome, locals, exc, report>>

\* lines 83-85
Except_reraise ==
    /\ pc = "except"
    /\ Leave("raise")
    /\ UNCHANGED <<input, data, pos, fopen, outcome, locals, exc, report>>
Except_continue ==
    /\ pc = "except"
    /\ report' = Append(report, ErrorLine(i + 1, exc))
    /\ pc' = "for"
    /\ UNCHANGED <<input, data, pos, fopen, how, outcome, locals, exc>>
Except ==
    /\ pc = "except"
    /\ report' = Append(report, ErrorLine(i + 1, exc))
    /\ Leave("break")
    /\ UNCHANGED <<input, data, pos, fopen, outcome, locals, exc>>

\* line 17: the with statement closes the file however its block is left;
\* read_gguf_metadata then returns, or the exception leaves it (line 92).
WithExit_leak ==
    /\ pc = "with_exit"
    /\ fopen' = (how # "end")
    /\ pc' = "finished"
    /\ outcome' = CASE how = "end" -> "Done"
                    [] how = "break" -> "LoopTerminated"
                    [] how = "return" -> "ParseAborted"
                    [] how = "raise" -> "Raised"
    /\ UNCHANGED <<input, data, pos, how, locals, exc, report>>
WithExit ==
    /\ pc = "with_exit"
    /\ fopen' = FALSE
    /\ pc' = "finished"
    /\ outcome' = CASE how = "end" -> "Done"
                    [] how = "break" -> "LoopTerminated"
                    [] how = "return" -> "ParseAborted"
                    [] how = "raise" -> "Raised"
    /\ UNCHANGED <<input, data, pos, how, locals, exc, report>>

\* One step of the run: the statement, and the position it leaves the file
\* at joins the trail.
Step(A) ==
    /\ A
    /\ trail' = Append(trail, pos')
    /\ UNCHANGED first

Next ==
    \/ Step(Open)
    \/ Step(ReadMagic)
    \/ Step(ReadVersion)
    \/ Step(ReadTensorCount)
    \/ Step(ReadKvCount)
    \/ Step(PrintHeader)
    \/ Step(For)
    \/ Step(ReadKey)
    \/ Step(CheckKey)
    \/ Step(ReadType)
    \/ Step(StringValue)
    \/ Step(ArrayValue)
    \/ Step(ForElem)
    \/ Step(ReadElem)
    \/ Step(ArraySkip)
    \/ Step(ScalarValue)
    \/ Step(Except)
    \/ Step(WithExit)

Spec == Init /\ [][Next]_vars

-----------------------------------------------------------------------------
(* What the claims speak of *)

Last(s) == s[Len(s)]

\* The entry lines of the report, in the order printed.
EntryLines == SelectSeq(report, LAMBDA l : l.kind = "entry")

\* The lines of the report of one of the kinds.
HasLine(kinds) == \E n \in 1..Len(report) : report[n].kind \in kinds

\* Entries 1..n, and no others, have an entry line.
Reported(n) ==
    /\ Len(EntryLines) = n
    /\ \A k \in 1..n : EntryLines[k].idx = k

\* The with block is being left or has been left.
Ended == pc \in {"with_exit", "finished"}

\* The 8 bytes before the cursor are a length field declaring len.
JustRead_Q(len) == pos >= 8 /\ unpack_Q(SubSeq(data, pos - 7, pos)) = len

\* C1: once a key whose length field declares more than 10000 has been
\* read and checked, the last line of the report is the "Corrupted key" line
\* of that entry, the loop has been left by break, none of the declared
\* bytes were read, the entries before it (and only they) have their entry
\* lines, and the check itself adds that one line to the report.
C1_KeyOverflowStops ==
    /\ [](length > MaxStringLen /\ pc # "check_key" =>
            /\ Ended
            /\ how = "break"
            /\ Last(report) = CorruptedKeyLine(i + 1)
            /\ Reported(i)
            /\ JustRead_Q(length))
    /\ [][pc = "check_key" /\ length > MaxStringLen =>
            /\ report' = Append(report, CorruptedKeyLine(i + 1))
            /\ i' = i]_vars

\* C1 witness: an oversized key met after one entry was reported.
C1_Witness ==
    /\ pc = "finished"
    /\ length = MaxStringLen + 1
    /\ i = 1
    /\ Len(EntryLines) = 1
    /\ Len(data) > pos

\* C2: once a STRING value whose length field declares more than 10000 has
\* been read, the last line of the report is the length warning, the loop
\* has been left by break with the cursor right after the length field, and
\* the entry lines are those of this entry and the ones before it.
C2_ValueOverflowStops ==
    /\ [](value_len > MaxValueLen =>
            /\ Ended
            /\ how = "break"
            /\ type_value = TYPE_STRING
            /\ Last(report) = WarnValueLen(value_len)
            /\ Reported(i + 1)
            /\ JustRead_Q(value_len))
    /\ [][pc = "value" /\ value_len' > MaxValueLen =>
            report' = Append(report, WarnValueLen(value_len'))]_vars

\* C2 witness: an oversized STRING value in the first entry of a file of two.
C2_Witness ==
    /\ pc = "finished"
    /\ value_len = MaxValueLen + 1
    /\ i = 0
    /\ kv_count = 2
    /\ Len(data) > pos

\* C3: once an ARRAY whose length field declares more than 100000 elements
\* has been read, the last line of the report is the length warning, the
\* loop has been left by break with the cursor right after the length field
\* (no element was read), and the entry lines are those of this entry and
\* the ones before it.
C3_ArrayOverflowStops ==
    /\ [](array_len > MaxArrayLen =>
            /\ Ended
            /\ how = "break"
            /\ type_value = TYPE_ARRAY
            /\ Last(report) = WarnArrayLen(array_len)
            /\ Reported(i + 1)
            /\ JustRead_Q(array_len))
    /\ [][pc = "value" /\ array_len' > MaxArrayLen =>
            /\ pos' = pos + 12
            /\ j' = j
            /\ Last(report') = WarnArrayLen(array_len')
            /\ SubSeq(report', 1, Len(report)) = report]_vars

\* C3 witness: an oversized array in the first entry of a file of two.
C3_Witness ==
    /\ pc = "finished"
    /\ array_len = MaxArrayLen + 1
    /\ i = 0
    /\ kv_count = 2
    /\ Len(data) > pos

\* C4: once an element of a STRING array whose length field declares more
\* than 10000 has been read, the function has returned from inside the loop
\* (not by break, and with no "Error reading key" line): the cursor is right
\* after that length field, the last line is the warning, and the entry
\* lines are those of the containing entry and the ones before it.
C4_ElementOverflowAborts ==
    /\ [](str_len > MaxArrayStrLen =>
            /\ Ended
            /\ how = "return"
            /\ pc = "finished" => outcome = "ParseAborted"
            /\ ~HasLine({"error"})
            /\ array_type = TYPE_STRING
            /\ Last(report) = WarnArrayString
            /\ Reported(i + 1)
            /\ JustRead_Q(str_len))
    /\ [][pc = "elem" /\ str_len' > MaxArrayStrLen =>
            /\ pos' = pos + 8
            /\ j' = j
            /\ report' = Append(report, WarnArrayString)]_vars

\* C4 witness: the second of three elements is oversized, in the first
\* entry of a file of two.
C4_Witness ==
    /\ pc = "finished"
    /\ str_len = MaxArrayStrLen + 1
    /\ j = 1
    /\ array_len = 3
    /\ i = 0
    /\ kv_count = 2
    /\ Len(data) > pos

\* The lines a step adds to the report.
Added == SubSeq(report', Len(report) + 1, Len(report'))

\* A file with the kv_count it declares entries, each a STRING value, a
\* fixed-width scalar or a STRING array within the ceilings, none cut short.
WellFormedInput(d) ==
    /\ d.openable
    /\ d.cut = Whole
    /\ Len(d.ents) = d.kv
    /\ \A k \in 1..Len(d.ents) :
          d.ents[k].kind \in {"string", "scalar", "string_array"}

Warnings == {"warn_string", "corrupted_key", "warn_value_len",
             "warn_array_len", "warn_array_string", "error"}

\* C5 (as claimed): the entries attempted never exceed min(kv_count, 50),
\* and a well-formed file with kv_count = 100 ends in Done with exactly 50
\* entry lines and no warning.
C5_Claim ==
    /\ kv_count # Unbound => i + 1 <= Min(kv_count, MaxEntries)
    /\ (pc = "finished" /\ WellFormedInput(input) /\ input.kv = 100) =>
          /\ outcome = "Done"
          /\ Reported(MaxEntries)
          /\ ~HasLine(Warnings)

\* C6: while and after a file of fewer than 24 bytes is read, no iteration
\* of the entry loop is entered, nothing is printed, and the run ends with
\* the exception struct.unpack raised in the header.
C6_ShortHeaderFails ==
    Len(data) < HeaderSize =>
        /\ i = Unbound
        /\ kv_count = Unbound
        /\ report = << >>
        /\ pc \in {"open", "magic", "version", "tensor_count", "kv_count",
                   "with_exit", "finished"}
        /\ how \in {"none", "raise"}
        /\ (pc = "finished" /\ input.openable) => outcome = "Raised"

\* C6 witness: a file of 23 bytes, the last header field one byte short.
C6_Witness ==
    /\ pc = "finished"
    /\ outcome = "Raised"
    /\ Len(data) = HeaderSize - 1
    /\ tensor_count # Unbound

\* C7 (as claimed): a well-formed file of n <= 50 entries ends in Done with
\* the entry lines 1..n, each with the key and type code encoded.
C7_Claim ==
    (pc = "finished" /\ WellFormedInput(input) /\ input.kv <= MaxEntries) =>
        /\ outcome = "Done"
        /\ EntryLines = [k \in 1..input.kv |->
                            EntryLine(k, input.ents[k].text, input.ents[k].type)]

\* C8 (as claimed): once the file is open, the run ends by the end of the
\* loop, a break or the return of line 71, and has printed a report.
C8_Claim ==
    (pc = "finished" /\ input.openable) =>
        /\ outcome \in {"Done", "LoopTerminated", "ParseAborted"}
        /\ report # << >>

\* An upper bound on the number of steps the run still takes.
StepsOfElements == 2 * MaxArrayLen + 2
StepsOfEntry == StepsOfElements + 8
\* the steps left when the iteration after iteration n is about to be chosen
StepsAtFor(n, count) ==
    2 + (IF Min(count, MaxEntries) > n + 1
         THEN (Min(count, MaxEntries) - n - 1) * StepsOfEntry ELSE 0)
Rank ==
    CASE pc = "finished" -> 0
      [] pc = "with_exit" -> 1
      [] pc = "except" -> 2
      [] pc = "for" -> StepsAtFor(i, kv_count)
      [] pc = "array_skip" -> StepsAtFor(i, kv_count) + 1
      [] pc = "for_elem" ->
            StepsAtFor(i, kv_count) + 2 * (array_len - j - 1) + 1
      [] pc = "elem" -> StepsAtFor(i, kv_count) + 2 * (array_len - j)
      [] pc = "value" -> StepsAtFor(i, kv_count) + StepsOfElements + 3
      [] pc = "read_type" -> StepsAtFor(i, kv_count) + StepsOfElements + 4
      [] pc = "check_key" -> StepsAtFor(i, kv_count) + StepsOfElements + 5
      [] pc = "read_key" -> StepsAtFor(i, kv_count) + StepsOfElements + 6
      [] pc = "print_header" -> StepsAtFor(Unbound, kv_count) + 1
      [] pc = "kv_count" -> StepsAtFor(Unbound, MaxEntries) + 2
      [] pc = "tensor_count" -> StepsAtFor(Unbound, MaxEntries) + 3
      [] pc = "version" -> StepsAtFor(Unbound, MaxEntries) + 4
      [] pc = "magic" -> StepsAtFor(Unbound, MaxEntries) + 5
      [] pc = "open" -> StepsAtFor(Unbound, MaxEntries) + 6

\* C8 (amended): once the header has been read the run always ends (no
\* state before the end is without a next step, and every step lowers the
\* bound Rank on the steps that remain), by the end of the loop, a break or
\* the return of line 71, with the header lines printed; every exception
\* raised in the loop is caught at once and reported with the index of the
\* iteration; an exception leaves the function only while the header is
\* read.
C8_Amended ==
    /\ [](pc # "finished" => ENABLED Next)
    /\ [][Rank' < Rank]_vars
    /\ []((pc = "finished" /\ kv_count # Unbound) =>
            /\ outcome \in {"Done", "LoopTerminated", "ParseAborted"}
            /\ Len(report) >= 3
            /\ SubSeq(report, 1, 3) = <<HeaderLine1, HeaderLine2, KeysTitle>>)
    /\ [][pc = "except" =>
            /\ report' = Append(report, ErrorLine(i + 1, exc))
            /\ how' = "break"
            /\ pc' = "with_exit"]_vars
    /\ [](how = "raise" => kv_count = Unbound /\ report = << >>)
    /\ [](pc = "except" => i >= 0 /\ how = "none")

\* C8 witness: an exception in the third iteration, raised after its entry
\* line was printed, was caught and reported.
C8_Witness ==
    /\ pc = "finished"
    /\ outcome = "LoopTerminated"
    /\ Last(report).kind = "error"
    /\ Last(report).idx = 3
    /\ Len(EntryLines) = 3

DetailKinds == {"value", "value_hex", "array_info"}

\* The entry line of the watched key carries the marker.
C9_Entry(strict) ==
    (pc = "read_type" /\ key = WatchKey /\ (strict \/ pc' # "except")) =>
        Added = <<Line("entry", i + 1, WatchKey, type_value', 0, TRUE)>>

\* A STRING value of the watched key, its length within the ceiling.
C9_String ==
    (/\ pc = "value" /\ key = WatchKey /\ type_value = TYPE_STRING
     /\ pc' # "except" /\ value_len' <= MaxValueLen) =>
        LET v == SubSeq(data, pos + 9, pos')
        IN  Added = IF UnicodeDecodeError(v) THEN <<ValueHexLine(hex(v))>>
                    ELSE <<ValueLine(decode(v))>>

\* An ARRAY value of the watched key.
C9_Array(strict) ==
    (/\ pc = "value" /\ key = WatchKey /\ type_value = TYPE_ARRAY
     /\ (strict \/ pc' # "except")) =>
        /\ Len(Added) >= 1
        /\ Added[1] = ArrayInfoLine(array_type', array_len')
        /\ unpack_I(SubSeq(data, pos + 1, pos + 4)) = array_type'
        /\ unpack_Q(SubSeq(data, pos + 5, pos + 12)) = array_len'

\* No other step prints the marker or a detail line.
C9_Others ==
    \A n \in 1..Len(Added) :
        /\ Added[n].found =>
              key = WatchKey /\ pc = "read_type" /\ Added[n].kind = "entry"
        /\ Added[n].kind \in DetailKinds =>
              key = WatchKey /\ pc = "value"

\* What is printed for three entries of the watched key: "llama3", the
\* bytes ff 41 and an array of two elements of type 5.
C9_Examples ==
    (/\ pc = "finished" /\ input.cut = Whole /\ input.kv >= 1
     /\ Len(input.ents) >= 1) =>
        /\ input.ents[1] = Catalogue[4] =>
              SubSeq(report, 4, 5) =
                 << Line("entry", 1, WatchKey, TYPE_STRING, 0, TRUE),
                    ValueLine(T_llama3) >>
        /\ input.ents[1] = Catalogue[5] =>
              SubSeq(report, 4, 5) =
                 << Line("entry", 1, WatchKey, TYPE_STRING, 0, TRUE),
                    ValueHexLine(<<102, 102, 52, 49>>) >>
        /\ input.ents[1] = Catalogue[6] =>
              SubSeq(report, 4, 5) =
                 << Line("entry", 1, WatchKey, TYPE_ARRAY, 0, TRUE),
                    ArrayInfoLine(5, 2) >>

\* C9 (as claimed): every entry with the watched key gets the entry line
\* with the marker; its STRING value within the ceiling gets the Value line
\* (the hex form when it does not decode); its ARRAY value gets the line
\* with element type and length; no other entry gets any of these.
C9_Claim ==
    [][C9_Entry(TRUE) /\ C9_String /\ C9_Array(TRUE) /\ C9_Others]_vars

\* C9 (amended): the same, for the entries whose type code is read in full,
\* and for the ARRAY values whose element type and length are read in full.
C9_Amended ==
    /\ [][C9_Entry(FALSE) /\ C9_String /\ C9_Array(FALSE) /\ C9_Others]_vars
    /\ []C9_Examples

\* C9 witness: the watched key with the STRING value "llama3", after one
\* other entry.
C9_Witness ==
    /\ pc = "finished"
    /\ Len(report) >= 6
    /\ report[4].kind = "entry" /\ ~report[4].found
    /\ report[5] = Line("entry", 2, WatchKey, TYPE_STRING, 0, TRUE)
    /\ report[6] = ValueLine(T_llama3)

\* C10: the file is open from open() until the with block is left, and is
\* closed when read_gguf_metadata has ended, however it ended.
C10_FileReleased ==
    /\ pc = "open" => ~fopen
    /\ pc \notin {"open", "finished"} => fopen
    /\ pc = "finished" =>
          /\ ~fopen
          /\ outcome \in {"Done", "LoopTerminated", "ParseAborted", "Raised",
                          "IOError"}
          /\ outcome = "IOError" <=> ~input.openable

\* C10 witness: the file is closed after the return of line 71.
C10_Witness ==
    /\ pc = "finished"
    /\ outcome = "ParseAborted"
    /\ ~fopen
    /\ pos > HeaderSize

\* C11 (as claimed): a key read with a declared length of at most 10000 is
\* never taken for the corruption sentinel, so the "Corrupted key" line is
\* printed, and the loop left by it, only for a key whose length field
\* declares more than 10000.
C11_Claim ==
    /\ pc = "check_key" /\ length <= MaxStringLen => key # CORRUPTED
    /\ (Len(report) > 0 /\ Last(report).kind = "corrupted_key") =>
          length > MaxStringLen

\* C12 (as claimed): every read of n payload bytes that does not raise
\* consumes exactly n bytes: a key of declared length n <= 10000, a STRING
\* value, an element of a STRING array, a scalar of width n and the
\* array_len * width bytes of an array of scalars.
C12_Claim ==
    [][/\ (pc = "read_key" /\ pc' = "check_key" /\ length' <= MaxStringLen) =>
            pos' = pos + 8 + length'
       /\ (pc = "value" /\ type_value = TYPE_STRING /\ pc' = "for") =>
            pos' = pos + 8 + value_len'
       /\ (pc = "elem" /\ pc' = "for_elem") =>
            pos' = pos + 8 + str_len'
       /\ (pc = "value" /\ type_value \notin {TYPE_STRING, TYPE_ARRAY}
             /\ type_value \in DOMAIN type_sizes /\ pc' = "for") =>
            pos' = pos + type_sizes[type_value]
       /\ (pc = "array_skip" /\ array_type \in DOMAIN type_sizes
             /\ pc' = "for") =>
            pos' = pos + array_len * type_sizes[array_type]]_vars

\* C13 (as claimed): the step that meets a type code of a value, or an
\* element type code of an array, that the width table does not hold adds a
\* line about it to the report, and raises nothing.
C13_Claim ==
    [][/\ (pc = "value" /\ type_value \notin DOMAIN type_sizes) =>
            Added # << >> /\ pc' # "except"
       /\ (pc = "array_skip" /\ array_type \notin DOMAIN type_sizes) =>
            Added # << >> /\ pc' # "except"]_vars

\* The width the claim C14 gives a type code: none is written 0.
C14_Width(t) ==
    IF t \in 0..2 THEN 1
    ELSE IF t \in 3..4 THEN 2
    ELSE IF t \in 5..7 THEN 4
    ELSE IF t = 10 THEN 8
    ELSE 0

\* C14 (as claimed): the width table gives 1, 1, 1, 2, 2, 4, 4, 4 bytes for
\* the codes 0..7, 8 bytes for the code 10 and no width for the codes 8 and
\* 9: a scalar value and the elements of an array are skipped by reading
\* that width, and the step that skips the elements of an ARRAY whose
\* element type code is 9 consumes no byte.
C14_Claim ==
    [][/\ (pc = "value" /\ type_value \notin {TYPE_STRING, TYPE_ARRAY}) =>
            pos' = pos + Len(f_read(pos, C14_Width(type_value)))
       /\ pc = "array_skip" =>
            pos' = pos + Len(f_read(pos, array_len * C14_Width(array_type)))
       /\ (pc = "array_skip" /\ array_type = TYPE_ARRAY) => pos' = pos]_vars

\* The 4 bytes before the cursor are a type code field holding v.
JustRead_I(v) == pos >= 4 /\ unpack_I(SubSeq(data, pos - 3, pos)) = v

\* C15: the step that meets a value whose type code is not in 0..10, or the
\* elements of an ARRAY (within the length ceiling) whose element type code
\* is not in 0..10, consumes no byte, prints nothing and hands over to the
\* for statement without break, return or exception; the next iteration
\* then starts with the cursor right after the type code, or right after
\* the element count, and reads its key length from the 8 bytes there.
C15_UnknownCodeSkipsNothing ==
    /\ [][(\/ pc = "value" /\ type_value \notin 0..10
           \/ pc = "array_skip" /\ array_type \notin 0..10) =>
            /\ pos' = pos
            /\ pc' = "for"
            /\ how' = "none"
            /\ report' = report]_vars
    /\ [](pc = "array_skip" => array_len <= MaxArrayLen)
    /\ []((pc = "read_key" /\ i >= 1 /\ type_value \notin 0..10) =>
            JustRead_I(type_value))
    /\ []((pc = "read_key" /\ i >= 1 /\ type_value = TYPE_ARRAY
             /\ array_type \notin 0..10) =>
            /\ JustRead_Q(array_len)
            /\ pos >= 12
            /\ unpack_I(SubSeq(data, pos - 11, pos - 8)) = array_type)
    /\ [][(pc = "read_key" /\ pc' = "check_key") =>
            length' = unpack_Q(SubSeq(data, pos + 1, pos + 8))]_vars

\* C15 witness: the key 'name' of the second entry has been read right
\* after the element count of an array of 2 elements of type 12.
C15_Witness ==
    /\ pc = "check_key"
    /\ i = 1
    /\ type_value = TYPE_ARRAY
    /\ array_type = 12
    /\ array_len = 2
    /\ key = T_name
    /\ pos = HeaderSize + 12 + 4 + 12 + 12

\* C16: the step that reads a key length, a STRING value length or a STRING
\* array element length of more than 10000 moves the cursor by the 8 bytes
\* of that field only, and the step that reads an array length of more than
\* 100000 by the 12 bytes of the element type and the length; from then on
\* the cursor stays right after the length field, so that none of the
\* declared bytes is ever read.
C16_OversizePayloadUnread ==
    /\ [][/\ (pc = "read_key" /\ length' > MaxStringLen) =>
               pos' = pos + 8
          /\ (pc = "value" /\ type_value = TYPE_STRING
                /\ value_len' > MaxValueLen) =>
               pos' = pos + 8
          /\ (pc = "elem" /\ str_len' > MaxArrayStrLen) =>
               pos' = pos + 8
          /\ (pc = "value" /\ type_value = TYPE_ARRAY
                /\ array_len' > MaxArrayLen) =>
               pos' = pos + 12 /\ pc' # "array_skip" /\ pc' # "for_elem"]_vars
    /\ [](length > MaxStringLen =>
            JustRead_Q(length) /\ pc \in {"check_key", "with_exit", "finished"})
    /\ [](value_len > MaxValueLen => JustRead_Q(value_len) /\ Ended)
    /\ [](str_len > MaxArrayStrLen => JustRead_Q(str_len) /\ Ended)
    /\ [](array_len > MaxArrayLen => JustRead_Q(array_len) /\ Ended)

\* C16 witness: the run has ended after the watched key declared a STRING
\* value of 10001 bytes, with the bytes of another entry left unread.
C16_Witness ==
    /\ pc = "finished"
    /\ i = 0
    /\ key = WatchKey
    /\ value_len = MaxValueLen + 1
    /\ pos = HeaderSize + 8 + Len(WatchKey) + 4 + 8
    /\ Len(data) > pos

\* The step about to be taken hands struct.unpack fewer bytes than the
\* field it reads needs: a key length, a type code, a STRING value length,
\* the element type and length of an ARRAY, a STRING element length.
ShortField ==
    \/ pc = "read_key" /\ Len(data) - pos < 8
    \/ pc = "read_type" /\ Len(data) - pos < 4
    \/ pc = "value" /\ type_value = TYPE_STRING /\ Len(data) - pos < 8
    \/ pc = "value" /\ type_value = TYPE_ARRAY /\ Len(data) - pos < 12
    \/ pc = "elem" /\ Len(data) - pos < 8

\* C17: a short read of a field inside iteration i raises into the except
\* clause of that iteration; the clause appends the error line with the
\* index i + 1 to a report it otherwise leaves as it was, and breaks.  Once
\* the error line is the last line, the loop is over for good: the entries
\* before i (and possibly i itself) have their entry lines, no line is added
\* and i does not move, a next step exists until the function has returned,
\* and it returns normally with the file closed.
C17_ExceptionEndsLoop ==
    /\ [][ShortField =>
            /\ pc' = "except"
            /\ exc' \in {4, 8}
            /\ i' = i
            /\ report' = report]_vars
    /\ [][pc = "except" =>
            /\ report' = Append(report, ErrorLine(i + 1, exc))
            /\ i' = i
            /\ how' = "break"
            /\ pc' = "with_exit"]_vars
    /\ []((Len(report) > 0 /\ Last(report).kind = "error") =>
            /\ Ended
            /\ how = "break"
            /\ Last(report).idx = i + 1
            /\ Reported(i) \/ Reported(i + 1)
            /\ pc = "finished" => outcome = "LoopTerminated" /\ ~fopen)
    /\ [][Ended => report' = report /\ i' = i /\ pos' = pos]_vars
    /\ [](pc \in {"except", "with_exit"} => ENABLED Next)

\* C17 witness: the file ended inside the type code of the second entry;
\* the first entry is in the report, followed by the error of iteration 2.
C17_Witness ==
    /\ pc = "finished"
    /\ outcome = "LoopTerminated"
    /\ Last(report) = ErrorLine(2, 4)
    /\ Reported(1)
    /\ kv_count > 2

-----------------------------------------------------------------------------
(* Two runs, one after the other, over files that differ in the key of     *)
(* one entry only: the watched key in the first run, a key of the same     *)
(* length that is not watched in the second.                               *)

\* "tokenizer.ggml.prf"
TwinKey == [WatchKey EXCEPT ![Len(WatchKey)] = 102]

\* The entry e of the watched key, with the twin key in its place.
TwinEntry(e) ==
    [e EXCEPT !.text = TwinKey,
              !.bytes = Prefixed(Utf8Encode(TwinKey))
                        \o SubSeq(e.bytes, 8 + Len(WatchKey) + 1, Len(e.bytes))]

\* What is compared of a run: the positions of the cursor after each of its
\* steps, the number of entries it printed an entry line for, and how it
\* ended.
Summary ==
    [trail |-> trail, entries |-> Len(EntryLines), outcome |-> outcome]

\* lines 87-92, once more: read_gguf_metadata is called on the twin file,
\* and what the run just ended did is kept for the comparison.
Restart ==
    /\ pc = "finished"
    /\ first = << >>
    /\ \E k \in 1..Len(input.ents) :
         /\ input.ents[k].text = WatchKey
         /\ input' = [input EXCEPT !.ents[k] = TwinEntry(input.ents[k])]
    /\ data' = FileOf(input')
    /\ first' = <<Summary>>
    /\ trail' = << >>
    /\ pos' = 0
    /\ fopen' = FALSE
    /\ pc' = "open"
    /\ how' = "none"
    /\ outcome' = "none"
    /\ magic' = Unbound
    /\ version' = Unbound
    /\ tensor_count' = Unbound
    /\ kv_count' = Unbound
    /\ i' = Unbound
    /\ key' = << >>
    /\ length' = Unbound
    /\ type_value' = Unbound
    /\ value_len' = Unbound
    /\ array_type' = Unbound
    /\ array_len' = Unbound
    /\ j' = Unbound
    /\ str_len' = Unbound
    /\ exc' = 0
    /\ report' = << >>

TwinNext ==
    \/ Next
    \/ Restart

TwinSpec == Init /\ [][TwinNext]_vars

\* C18: the run over the twin file goes through the same cursor positions,
\* step for step, as the run over the file with the watched key did, and
\* when it has ended it has printed as many entry lines and ended the same
\* way (Done, LoopTerminated or ParseAborted).
C18_WatchListIsOverlay ==
    first # << >> =>
        /\ Len(trail) <= Len(first[1].trail)
        /\ trail = SubSeq(first[1].trail, 1, Len(trail))
        /\ pc = "finished" => Summary = first[1]

\* C18 witness: both runs are over; the first printed the decoded value
\* 'llama3' of the watched key, the second read the twin key in its place
\* and went on to the end of the file.
C18_Witness ==
    /\ pc = "finished"
    /\ first # << >>
    /\ first[1].outcome = "Done"
    /\ first[1].entries = 2
    /\ input.ents[1].text = TwinKey
    /\ input.ents[1].kind = "string"
    /\ EntryLines[1].text = TwinKey
    /\ ~HasLine({"value", "value_hex", "array_info"})
    /\ pos = Len(data)

-----------------------------------------------------------------------------
(* The bytes a step consumes, counted on the file itself. *)

\* The number of bytes a read of n bytes at position p returns.
ReadBytes(p, n) == Len(f_read(p, n))

\* A length field at the cursor and, the field being whole and the length
\* within the ceiling, the payload it declares.
LengthThenPayload(ceiling) ==
    LET b == f_read(pos, 8)
    IN  IF Len(b) < 8 THEN Len(b)
        ELSE IF unpack_Q(b) > ceiling THEN 8
        ELSE 8 + ReadBytes(pos + 8, unpack_Q(b))

\* The bytes the step about to be taken in the entry loop consumes.
StepBytes ==
    CASE pc = "read_key" -> LengthThenPayload(MaxStringLen)
      [] pc = "read_type" -> ReadBytes(pos, 4)
      [] pc = "value" /\ type_value = TYPE_STRING ->
            LengthThenPayload(MaxValueLen)
      [] pc = "value" /\ type_value = TYPE_ARRAY ->
            IF ReadBytes(pos, 4) < 4 THEN ReadBytes(pos, 4)
            ELSE 4 + ReadBytes(pos + 4, 8)
      [] pc = "value" /\ type_value \notin {TYPE_STRING, TYPE_ARRAY} ->
            IF type_value \in DOMAIN type_sizes
            THEN ReadBytes(pos, type_sizes[type_value])
            ELSE 0
      [] pc = "elem" -> LengthThenPayload(MaxArrayStrLen)
      [] pc = "array_skip" ->
            IF array_type \in DOMAIN type_sizes
            THEN ReadBytes(pos, array_len * type_sizes[array_type])
            ELSE 0
      [] OTHER -> 0

\* The bytes of the first n entries of a file.
RECURSIVE SumLen(_, _)
SumLen(ents, n) ==
    IF n = 0 THEN 0 ELSE Len(ents[n].bytes) + SumLen(ents, n - 1)

\* The first n entries of the file are all there and each is consumed
\* whole by the iteration that reads it.
ConsumedWhole(n) ==
    /\ input.cut = Whole
    /\ n <= Len(input.ents)
    /\ \A k \in 1..n :
          input.ents[k].kind \in {"string", "scalar", "string_array", "array",
                                  "unknown"}

\* C19 (as claimed): in every state of a run over an opened file, after the
\* reads of the header, the cursor is at the 24 bytes of the header plus the
\* bytes consumed by the entries, hence at 24 or more, and never beyond the
\* end of the file.
C19_Claim ==
    (/\ pc \notin {"open", "magic", "version", "tensor_count", "kv_count"}
     /\ outcome # "IOError") =>
        /\ pos >= HeaderSize
        /\ pos <= Len(data)

\* C19 (amended): the cursor never moves back and is never beyond the end
\* of the file; it is within the header until the header has been read and
\* at 24 when the entry loop is entered; from then on every step moves it
\* by exactly the bytes its reads consume, so that it is at 24 plus the
\* bytes consumed by the entries: after n entries consumed whole, at 24 plus
\* the sum of their sizes.
C19_Amended ==
    /\ [][pos' >= pos]_vars
    /\ [](pos <= Len(data))
    /\ [](kv_count = Unbound => pos <= HeaderSize)
    /\ [](pc = "print_header" => pos = HeaderSize)
    /\ [][kv_count # Unbound => pos' = pos + StepBytes]_vars
    /\ []((pc = "for" /\ i >= 0 /\ ConsumedWhole(i + 1)) =>
            pos = HeaderSize + SumLen(input.ents, i + 1))

\* C19 witness: two entries, the second a STRING array, were consumed whole
\* and the cursor is at the end of the file.
C19_Witness ==
    /\ pc = "finished"
    /\ outcome = "Done"
    /\ i = 1
    /\ Len(input.ents) = 2
    /\ input.ents[2].kind = "string_array"
    /\ ConsumedWhole(2)
    /\ pos = HeaderSize + SumLen(input.ents, 2)
    /\ pos = Len(data)

\* The length the 8-byte field at position p declares; Unbound when fewer
\* than 8 bytes remain there.
Declared(p) ==
    IF ReadBytes(p, 8) = 8 THEN unpack_Q(f_read(p, 8)) ELSE Unbound

\* The kinds of the lines a step adds to the report.
AddedKinds == {Added[n].kind : n \in 1..Len(Added)}

====
